---- MODULE Spec2Model ----
(***************************************************************************)
(* Model of backend/federated_learning.py: the federated-learning          *)
(* coordinator (FederatedLearningSystem), its five nodes (FederatedNode)   *)
(* and the snapshot file fl_state.pkl; and of backend/ai_model.py: the     *)
(* fraud scorer (FraudDetectionModel).                                     *)
(*                                                                         *)
(* Accuracies are kept in units of 1e-4 (0.75 is 7500).  The global        *)
(* accuracy, a quotient in the code, is kept as an exact fraction          *)
(* [num, den].  Fraud scores are kept in units of 1e-6 (0.65 is 650000)    *)
(* and the fields rounded to four places in units of 1e-4.  Arithmetic is  *)
(* exact: the rounding error of binary floating point is not modelled.     *)
(***************************************************************************)
EXTENDS Integers, Sequences, FiniteSets, TLC

\* ------------------------------------------------------------------ bounds
MaxClaimId == 2
MaxBatch == 2
MaxRounds == 2
MaxIoClaimId == 1
MaxBatchClaimId == 1
MaxRoundClaimId == 3
NumThreads == 2
MaxHistory == 11
MaxPredictions == 2
MaxFiles == 4
MaxScores == 2

\* --------------------------------------------------------------- constants
NumNodes == 5
BaseAccuracy == 7500
MaxImprovement == 2000
ImprovementPerSample == 100
AccuracyCap == 9800
DefaultGlobalAccuracy == 7500
HistoryWindow == 10
ScoreOne == 1000000

NodeIds == 1..NumNodes
Threads == 1..NumThreads
Statuses == {"APPROVED", "REJECTED", "PENDING"}
Finalized == {"APPROVED", "REJECTED"}
\* outcomes of open('fl_state.pkl','wb') followed by pickle.dump
SaveOutcomes == {"ok", "open_failed", "write_failed"}
\* outcomes of reading the snapshot at startup
LoadOutcomes == {"ok", "read_failed"}
\* random.uniform(-0.03, 0.03), sampled at its ends
Noise == {-300, 300}

\* A claim dictionary as ingestion reads it: id, status, and whether
\* _extract_features succeeds on its other fields.  The batches of at most
\* maxlen such claims:
BatchesOver(ids, statuses, feats, maxlen) ==
    UNION {[1..n -> [id : ids, status : statuses, featuresOk : feats]] : n \in 0..maxlen}

VARIABLES
    nodes,                      \* self.nodes
    processed_claims,           \* self.processed_claims
    training_rounds,            \* self.training_rounds
    global_model_accuracy,      \* self.global_model_accuracy, a fraction
    last_trained_claim_count,   \* self.last_trained_claim_count
    training_history,           \* self.training_history
    disk,                       \* the file fl_state.pkl
    call,                       \* the last operation, its input and result
    quiet,                      \* a train_round returned and nothing was accepted since
    repeat_call,                \* the last train_round started quiet and accepted nothing
    predictions_count,          \* FraudDetectionModel.predictions_count
    threads                     \* the request threads inside a coordinator method

vars == <<nodes, processed_claims, training_rounds, global_model_accuracy,
          last_trained_claim_count, training_history, disk, call, quiet,
          repeat_call, predictions_count, threads>>

Min(a, b) == IF a < b THEN a ELSE b

Frac(n, d) == [num |-> n, den |-> d]

\* ------------------------------------------------------------ FederatedNode
NewNode ==
    [local_data |-> <<>>, local_model_accuracy |-> 0,
     training_samples |-> 0, processed_claims |-> {}]

\* mutant: the sample is appended but its id is not entered in the node's set
add_unrecorded(node, claim_id, label) ==
    IF claim_id \notin node.processed_claims
    THEN [added |-> TRUE,
          node |-> [node EXCEPT
                      !.local_data = Append(@, [claim_id |-> claim_id, label |-> label]),
                      !.training_samples = Len(node.local_data) + 1]]
    ELSE [added |-> FALSE, node |-> node]

\* add_training_sample
add_training_sample(node, claim_id, label) ==
    IF claim_id \notin node.processed_claims
    THEN [added |-> TRUE,
          node |-> [node EXCEPT
                      !.local_data = Append(@, [claim_id |-> claim_id, label |-> label]),
                      !.processed_claims = @ \cup {claim_id},
                      !.training_samples = Len(node.local_data) + 1]]
    ELSE [added |-> FALSE, node |-> node]

\* mutant: the improvement is added to what the node had reached before
train_from_previous(node, noise) ==
    IF node.training_samples > 0
    THEN [node EXCEPT !.local_model_accuracy =
            Min(AccuracyCap,
                (IF @ > BaseAccuracy THEN @ ELSE BaseAccuracy)
                + Min(MaxImprovement, node.training_samples * ImprovementPerSample)
                + noise)]
    ELSE node

\* train_local_model
train_local_model(node, noise) ==
    IF node.training_samples > 0
    THEN [node EXCEPT !.local_model_accuracy =
            Min(AccuracyCap,
                BaseAccuracy
                + Min(MaxImprovement, node.training_samples * ImprovementPerSample)
                + noise)]
    ELSE node

\* ------------------------------------------------------------- persistence
\* mutant: last_trained_claim_count is left out of the snapshot, so that
\* state.get reads its default back
WithoutLastTrained(pc, tr, gma, ltc) ==
    [processed_claims |-> pc, training_rounds |-> tr,
     global_model_accuracy |-> gma, last_trained_claim_count |-> 0]

\* the dictionary _save_state pickles and _load_state reads back
InMemory(pc, tr, gma, ltc) ==
    [processed_claims |-> pc, training_rounds |-> tr,
     global_model_accuracy |-> gma, last_trained_claim_count |-> ltc]

Defaults == InMemory({}, 0, Frac(DefaultGlobalAccuracy, 1), 0)

NoFile == [kind |-> "absent", state |-> Defaults]
BadFile == [kind |-> "corrupt", state |-> Defaults]

\* _save_state: open(..., 'wb') truncates the file, pickle.dump fills it;
\* an exception from either is caught and only printed
save_state(d, st, outcome) ==
    CASE outcome = "ok" -> [kind |-> "state", state |-> st]
      [] outcome = "open_failed" -> d
      [] outcome = "write_failed" -> BadFile

\* mutant: the processed set is taken from the file before the read fails
load_state_partial(d, outcome) ==
    IF d.kind = "state" /\ outcome = "ok" THEN d.state
    ELSE IF d.kind = "state" THEN [Defaults EXCEPT !.processed_claims = d.state.processed_claims]
    ELSE Defaults

\* _load_state over the defaults set by __init__
load_state(d, outcome) ==
    IF d.kind = "state" /\ outcome = "ok" THEN d.state ELSE Defaults

\* ---------------------------------------------------------------- ingestion
RECURSIVE SumSamples(_, _)
SumSamples(ns, i) ==
    IF i = 0 THEN 0 ELSE ns[i].training_samples + SumSamples(ns, i - 1)

\* sum(node.training_samples for node in self.nodes)
total_samples(ns) == SumSamples(ns, NumNodes)

\* mutant: the labels are swapped
LabelSwapped(status) == IF status = "REJECTED" THEN 0 ELSE 1

\* label = 1 if status == 'REJECTED' else 0
LabelOf(status) == IF status = "REJECTED" THEN 1 ELSE 0

\* if status not in ['APPROVED', 'REJECTED']: continue
is_finalized(status) == status \in Finalized

\* mutant: the global dedup gate is missing
never_processed(pc, claim_id) == FALSE

\* if claim_id in self.processed_claims: continue
already_processed(pc, claim_id) == claim_id \in pc

\* The loop of load_new_claims_from_blockchain over the rest of the batch:
\* the set of results over every outcome of random.choice(self.nodes).
RECURSIVE LoadLoop(_, _, _, _)
LoadLoop(ns, pc, cnt, claims) ==
    IF claims = <<>>
    THEN {[nodes |-> ns, processed_claims |-> pc, new_claims_count |-> cnt]}
    ELSE LET claim == Head(claims)
             rest == Tail(claims)
         IN  IF ~is_finalized(claim.status)
             THEN LoadLoop(ns, pc, cnt, rest)
             ELSE IF already_processed(pc, claim.id)
             THEN LoadLoop(ns, pc, cnt, rest)
             ELSE IF ~claim.featuresOk
             THEN LoadLoop(ns, pc, cnt, rest)
             ELSE UNION {
                    LET r == add_training_sample(ns[n], claim.id, LabelOf(claim.status))
                    IN  IF r.added
                        THEN LoadLoop([ns EXCEPT ![n] = r.node],
                                      pc \cup {claim.id}, cnt + 1, rest)
                        ELSE LoadLoop(ns, pc, cnt, rest)
                    : n \in NodeIds }

\* load_new_claims_from_blockchain up to its return: the loop, then
\* _save_state when something was accepted, over the outcomes `saves` the
\* write may have.
load_new_claims(ns, pc, tr, gma, ltc, d, claims, saves) ==
    UNION {
        IF o.new_claims_count > 0
        THEN { [nodes |-> o.nodes,
                processed_claims |-> o.processed_claims,
                new_claims_count |-> o.new_claims_count,
                disk |-> save_state(d, InMemory(o.processed_claims, tr, gma, ltc), save),
                saved |-> <<save>>] : save \in saves }
        ELSE { [nodes |-> o.nodes,
                processed_claims |-> o.processed_claims,
                new_claims_count |-> o.new_claims_count,
                disk |-> d,
                saved |-> <<>>] }
        : o \in LoadLoop(ns, pc, 0, claims) }

\* ------------------------------------------------------------- train_round
\* round(x, 4) of a fraction, in units of 1e-4 (ties to even)
Round4(f) ==
    LET q == f.num \div f.den
        r == f.num % f.den
    IN  IF 2 * r < f.den THEN q
        ELSE IF 2 * r > f.den THEN q + 1
        ELSE IF q % 2 = 0 THEN q ELSE q + 1

\* the nodes that train: those with training_samples > 0
Trainable(ns) == {n \in NodeIds : ns[n].training_samples > 0}

\* the local-training loop: every node with samples trains, in roster order
TrainNodes(ns, noise) ==
    [n \in NodeIds |->
        IF ns[n].training_samples > 0
        THEN train_local_model(ns[n], noise[n]) ELSE ns[n]]

\* mutant: every node of the roster is listed, with or without samples
RECURSIVE WholeRoster(_, _)
WholeRoster(ns, i) ==
    IF i > NumNodes THEN <<>>
    ELSE <<[node_id |-> i, accuracy |-> ns[i].local_model_accuracy,
            samples |-> ns[i].training_samples]>> \o WholeRoster(ns, i + 1)

\* participating_nodes, in roster order from node i on
RECURSIVE Participating(_, _)
Participating(ns, i) ==
    IF i > NumNodes THEN <<>>
    ELSE IF ns[i].training_samples > 0
         THEN <<[node_id |-> i, accuracy |-> ns[i].local_model_accuracy,
                 samples |-> ns[i].training_samples]>> \o Participating(ns, i + 1)
         ELSE Participating(ns, i + 1)

RECURSIVE SumWeights(_)
SumWeights(ps) ==
    IF ps = <<>> THEN 0 ELSE Head(ps).samples + SumWeights(Tail(ps))

RECURSIVE SumWeighted(_)
SumWeighted(ps) ==
    IF ps = <<>> THEN 0
    ELSE Head(ps).accuracy * Head(ps).samples + SumWeighted(Tail(ps))

RECURSIVE SumAccuracies(_)
SumAccuracies(ps) ==
    IF ps = <<>> THEN 0 ELSE Head(ps).accuracy + SumAccuracies(Tail(ps))

\* mutant: the plain mean of the local accuracies, the sample counts ignored
aggregate_unweighted(ps, old) ==
    IF ps # <<>> THEN Frac(SumAccuracies(ps), Len(ps)) ELSE old

\* sum(acc * weight) / total_weight over zip(node_accuracies, node_weights)
aggregate(ps, old) ==
    IF ps # <<>> THEN Frac(SumWeighted(ps), SumWeights(ps)) ELSE old

\* mutant: the empty-data gate is missing
data_unchecked(total) == FALSE

\* if total_samples == 0: no data to train on
no_training_data(total) == total = 0

\* mutant: the no-growth gate is missing
growth_unchecked(total, ltc) == FALSE

\* if total_samples == self.last_trained_claim_count: nothing new since the last round
no_new_data(total, ltc) == total = ltc

\* the dictionary train_round returns (and, on success, appends to the history)
RoundResult(ok, msg, rnd, cnt, total, gma, ps) ==
    [success |-> ok, message |-> msg, round |-> rnd, new_claims_loaded |-> cnt,
     total_samples |-> total, global_accuracy |-> Round4(gma),
     nodes_participated |-> Len(ps), node_accuracies |-> ps]

\* ------------------------------------------------------------------- state
\* a request thread that is in no coordinator method
Idle == [pc |-> "idle"]

Init ==
    /\ nodes = [n \in NodeIds |-> NewNode]
    /\ processed_claims = {}
    /\ training_rounds = 0
    /\ global_model_accuracy = Frac(DefaultGlobalAccuracy, 1)
    /\ last_trained_claim_count = 0
    /\ training_history = <<>>
    /\ disk = NoFile
    /\ call = [op |-> "init", claims |-> <<>>, saved |-> <<>>, ret |-> [none |-> TRUE]]
    /\ quiet = FALSE
    /\ repeat_call = FALSE
    /\ predictions_count = 0
    /\ threads = [t \in Threads |-> Idle]

\* load_new_claims_from_blockchain called on its own
LoadNewClaims(batches, saves) ==
    \E claims \in batches :
    \E o \in load_new_claims(nodes, processed_claims, training_rounds,
                             global_model_accuracy, last_trained_claim_count,
                             disk, claims, saves) :
        /\ nodes' = o.nodes
        /\ processed_claims' = o.processed_claims
        /\ disk' = o.disk
        /\ call' = [op |-> "load_new_claims", claims |-> claims, saved |-> o.saved,
                    ret |-> [new_claims_count |-> o.new_claims_count]]
        /\ quiet' = (quiet /\ o.new_claims_count = 0)
        /\ repeat_call' = FALSE
        /\ UNCHANGED <<training_rounds, global_model_accuracy,
                       last_trained_claim_count, training_history,
                       predictions_count, threads>>

\* train_round(claims): `if claims:` skips ingestion for None and for []
TrainRound(batches, saves, noises) ==
    \E claims \in batches :
    \E o \in (IF claims # <<>>
              THEN load_new_claims(nodes, processed_claims, training_rounds,
                                   global_model_accuracy, last_trained_claim_count,
                                   disk, claims, saves)
              ELSE {[nodes |-> nodes, processed_claims |-> processed_claims,
                     new_claims_count |-> 0, disk |-> disk, saved |-> <<>>]}) :
        LET total == total_samples(o.nodes)
            failed(msg) ==
                /\ nodes' = o.nodes
                /\ disk' = o.disk
                /\ call' = [op |-> "train_round", claims |-> claims, saved |-> o.saved,
                            ret |-> RoundResult(FALSE, msg, training_rounds,
                                                o.new_claims_count, total,
                                                global_model_accuracy, <<>>)]
                /\ UNCHANGED <<training_rounds, global_model_accuracy,
                               last_trained_claim_count, training_history>>
        IN  /\ processed_claims' = o.processed_claims
            /\ UNCHANGED <<predictions_count, threads>>
            /\ quiet' = TRUE
            /\ repeat_call' = (quiet /\ o.new_claims_count = 0)
            /\ IF no_training_data(total) THEN failed("no_training_data")
               ELSE IF no_new_data(total, last_trained_claim_count)
               THEN failed("no_new_claims")
               ELSE /\ training_rounds < MaxRounds
                    /\ \E noise \in [Trainable(o.nodes) -> noises], save \in saves :
                        LET trained == TrainNodes(o.nodes, noise)
                            ps == Participating(trained, 1)
                            gma == aggregate(ps, global_model_accuracy)
                            res == RoundResult(TRUE, "success", training_rounds + 1,
                                               o.new_claims_count, total, gma, ps)
                        IN  /\ training_rounds' = training_rounds + 1
                            /\ last_trained_claim_count' = total
                            /\ nodes' = trained
                            /\ global_model_accuracy' = gma
                            /\ training_history' = Append(training_history, res)
                            /\ disk' = save_state(o.disk,
                                          InMemory(o.processed_claims, training_rounds + 1,
                                                   gma, total), save)
                            /\ call' = [op |-> "train_round", claims |-> claims,
                                        saved |-> Append(o.saved, save), ret |-> res]

\* mutant: the slice is taken from the front of the history
oldest_history(h) == SubSeq(h, 1, Min(HistoryWindow, Len(h)))

\* self.training_history[-10:]
recent_history(h) ==
    SubSeq(h, IF Len(h) > HistoryWindow THEN Len(h) - HistoryWindow + 1 ELSE 1, Len(h))

\* get_status: reads only
GetStatus ==
    LET total == total_samples(nodes)
        available == total - last_trained_claim_count
    IN  /\ call' = [op |-> "get_status", claims |-> <<>>, saved |-> <<>>,
                    ret |-> [rounds_completed |-> training_rounds,
                             global_accuracy |-> Round4(global_model_accuracy),
                             total_nodes |-> NumNodes,
                             active_nodes |-> Cardinality(Trainable(nodes)),
                             total_training_samples |-> total,
                             processed_claims_count |-> Cardinality(processed_claims),
                             new_samples_available |-> available,
                             can_train |-> (available > 0),
                             nodes |-> [n \in NodeIds |->
                                 [node_id |-> n,
                                  samples |-> nodes[n].training_samples,
                                  accuracy |-> IF nodes[n].training_samples > 0
                                               THEN nodes[n].local_model_accuracy
                                               ELSE 0]],
                             training_history |-> recent_history(training_history)]]
        /\ repeat_call' = FALSE
        /\ UNCHANGED <<nodes, processed_claims, training_rounds, global_model_accuracy,
                       last_trained_claim_count, training_history, disk, quiet,
                       predictions_count, threads>>

\* mutant: reset forgets to clear the nodes' own dedup sets
ResetKeepsNodeSets(saves) ==
    \E save \in saves :
    /\ processed_claims' = {}
    /\ training_rounds' = 0
    /\ global_model_accuracy' = Frac(DefaultGlobalAccuracy, 1)
    /\ last_trained_claim_count' = 0
    /\ training_history' = <<>>
    /\ nodes' = [n \in NodeIds |->
                    [nodes[n] EXCEPT !.local_data = <<>>,
                                     !.training_samples = 0,
                                     !.local_model_accuracy = 0]]
    /\ disk' = save_state(disk, Defaults, save)
    /\ call' = [op |-> "reset", claims |-> <<>>, saved |-> <<save>>,
                ret |-> [none |-> TRUE]]
    /\ repeat_call' = FALSE
    /\ UNCHANGED <<quiet, predictions_count, threads>>

\* reset
Reset(saves) ==
    \E save \in saves :
    /\ processed_claims' = {}
    /\ training_rounds' = 0
    /\ global_model_accuracy' = Frac(DefaultGlobalAccuracy, 1)
    /\ last_trained_claim_count' = 0
    /\ training_history' = <<>>
    /\ nodes' = [n \in NodeIds |->
                    [nodes[n] EXCEPT !.local_data = <<>>, !.processed_claims = {},
                                     !.training_samples = 0,
                                     !.local_model_accuracy = 0]]
    /\ disk' = save_state(disk, Defaults, save)
    /\ call' = [op |-> "reset", claims |-> <<>>, saved |-> <<save>>,
                ret |-> [none |-> TRUE]]
    /\ repeat_call' = FALSE
    /\ UNCHANGED <<quiet, predictions_count, threads>>

\* the process restarts: __init__ builds a fresh coordinator and _load_state
\* reads the snapshot
Restart(loads) ==
    \E load \in loads :
    LET st == load_state(disk, load)
    IN  /\ nodes' = [n \in NodeIds |-> NewNode]
        /\ training_history' = <<>>
        /\ processed_claims' = st.processed_claims
        /\ training_rounds' = st.training_rounds
        /\ global_model_accuracy' = st.global_model_accuracy
        /\ last_trained_claim_count' = st.last_trained_claim_count
        /\ call' = [op |-> "restart", claims |-> <<>>, saved |-> <<>>,
                    ret |-> [read |-> load]]
        /\ repeat_call' = FALSE
        /\ UNCHANGED <<disk, quiet, predictions_count, threads>>

\* ---------------------------------------------------------- request threads
\* app.run serves each request on a thread of its own and the coordinator
\* holds no lock, so the steps of two fl_train requests interleave.  A step
\* is one or more whole lines of train_round and
\* load_new_claims_from_blockchain; the calls and prints between the steps
\* are where the interpreter switches threads.  A thread inside train_round:
InTrainRound(pc, batch, rest, count, total, ps, saved) ==
    [pc |-> pc, batch |-> batch, rest |-> rest, new_claims_count |-> count,
     total_samples |-> total, participating_nodes |-> ps, saved |-> saved]

\* the frame of a thread step
ThreadFrame == UNCHANGED <<quiet, repeat_call, predictions_count>>

\* lines 181-183: train_round is entered; `if claims:` enters the ingestion
ThreadEnters(t, batches) ==
    \E claims \in batches :
        /\ threads[t].pc = "idle"
        /\ threads' = [threads EXCEPT ![t] =
               InTrainRound(IF claims # <<>> THEN "loop" ELSE "gate",
                            claims, claims, 0, 0, <<>>, <<>>)]
        /\ UNCHANGED <<nodes, processed_claims, training_rounds, global_model_accuracy,
                       last_trained_claim_count, training_history, disk, call>>
        /\ ThreadFrame

\* lines 134-151: the next claim of the batch is skipped, or found to be
\* finalized, not processed and with features; lines 165-169 after the last
ThreadExamines(t, saves) ==
    LET th == threads[t]
    IN  /\ th.pc = "loop"
        /\ IF th.rest = <<>>
           THEN IF th.new_claims_count > 0
                THEN \E save \in saves :
                        /\ disk' = save_state(disk,
                                      InMemory(processed_claims, training_rounds,
                                               global_model_accuracy,
                                               last_trained_claim_count), save)
                        /\ threads' = [threads EXCEPT ![t].pc = "gate",
                                                      ![t].saved = Append(@, save)]
                ELSE /\ threads' = [threads EXCEPT ![t].pc = "gate"]
                     /\ UNCHANGED disk
           ELSE LET claim == Head(th.rest)
                IN  /\ UNCHANGED disk
                    /\ IF \/ ~is_finalized(claim.status)
                          \/ already_processed(processed_claims, claim.id)
                          \/ ~claim.featuresOk
                       THEN threads' = [threads EXCEPT ![t].rest = Tail(@)]
                       ELSE threads' = [threads EXCEPT ![t].pc = "place"]
        /\ UNCHANGED <<nodes, processed_claims, training_rounds, global_model_accuracy,
                       last_trained_claim_count, training_history, call>>
        /\ ThreadFrame

\* lines 154-155: random.choice and node.add_training_sample
ThreadPlaces(t) ==
    LET th == threads[t]
        claim == Head(th.rest)
    IN  /\ th.pc = "place"
        /\ \E n \in NodeIds :
              LET r == add_training_sample(nodes[n], claim.id, LabelOf(claim.status))
              IN  IF r.added
                  THEN /\ nodes' = [nodes EXCEPT ![n] = r.node]
                       /\ threads' = [threads EXCEPT ![t].pc = "record"]
                  ELSE /\ UNCHANGED nodes
                       /\ threads' = [threads EXCEPT ![t].pc = "loop", ![t].rest = Tail(@)]
        /\ UNCHANGED <<processed_claims, training_rounds, global_model_accuracy,
                       last_trained_claim_count, training_history, disk, call>>
        /\ ThreadFrame

\* lines 156-157: the claim enters the processed set and is counted
ThreadRecords(t) ==
    LET th == threads[t]
    IN  /\ th.pc = "record"
        /\ processed_claims' = processed_claims \cup {Head(th.rest).id}
        /\ threads' = [threads EXCEPT ![t].pc = "loop", ![t].rest = Tail(@),
                                      ![t].new_claims_count = @ + 1]
        /\ UNCHANGED <<nodes, training_rounds, global_model_accuracy,
                       last_trained_claim_count, training_history, disk, call>>
        /\ ThreadFrame

\* lines 186-210: the total is taken and the two gates return a failure
ThreadGates(t) ==
    LET th == threads[t]
        total == total_samples(nodes)
        failed(msg) ==
            /\ threads' = [threads EXCEPT ![t] = Idle]
            /\ call' = [op |-> "train_round", claims |-> th.batch, saved |-> th.saved,
                        ret |-> RoundResult(FALSE, msg, training_rounds,
                                            th.new_claims_count, total,
                                            global_model_accuracy, <<>>)]
    IN  /\ th.pc = "gate"
        /\ IF no_training_data(total) THEN failed("no_training_data")
           ELSE IF no_new_data(total, last_trained_claim_count) THEN failed("no_new_claims")
           ELSE /\ threads' = [threads EXCEPT ![t].pc = "count", ![t].total_samples = total]
                /\ UNCHANGED call
        /\ UNCHANGED <<nodes, processed_claims, training_rounds, global_model_accuracy,
                       last_trained_claim_count, training_history, disk>>
        /\ ThreadFrame

\* lines 216-217, taken as one step: the counter and the trained total
ThreadCounts(t) ==
    LET th == threads[t]
    IN  /\ th.pc = "count"
        /\ training_rounds < MaxRounds
        /\ training_rounds' = training_rounds + 1
        /\ last_trained_claim_count' = th.total_samples
        /\ threads' = [threads EXCEPT ![t].pc = "train"]
        /\ UNCHANGED <<nodes, processed_claims, global_model_accuracy,
                       training_history, disk, call>>
        /\ ThreadFrame

\* lines 219-245: the nodes train and the global accuracy is aggregated
ThreadTrains(t, noises) ==
    LET th == threads[t]
    IN  /\ th.pc = "train"
        /\ \E noise \in [Trainable(nodes) -> noises] :
              LET trained == TrainNodes(nodes, noise)
                  ps == Participating(trained, 1)
              IN  /\ nodes' = trained
                  /\ global_model_accuracy' = aggregate(ps, global_model_accuracy)
                  /\ threads' = [threads EXCEPT ![t].pc = "result",
                                                ![t].participating_nodes = ps]
        /\ UNCHANGED <<processed_claims, training_rounds, last_trained_claim_count,
                       training_history, disk, call>>
        /\ ThreadFrame

\* lines 247-263: the record is built from self.training_rounds and
\* self.global_model_accuracy as they are now, appended, saved and returned
ThreadFinishes(t, saves) ==
    LET th == threads[t]
        res == RoundResult(TRUE, "success", training_rounds, th.new_claims_count,
                           th.total_samples, global_model_accuracy,
                           th.participating_nodes)
    IN  /\ th.pc = "result"
        /\ \E save \in saves :
              /\ training_history' = Append(training_history, res)
              /\ disk' = save_state(disk,
                            InMemory(processed_claims, training_rounds,
                                     global_model_accuracy, last_trained_claim_count),
                            save)
              /\ call' = [op |-> "train_round", claims |-> th.batch,
                          saved |-> Append(th.saved, save), ret |-> res]
        /\ threads' = [threads EXCEPT ![t] = Idle]
        /\ UNCHANGED <<nodes, processed_claims, training_rounds, global_model_accuracy,
                       last_trained_claim_count>>
        /\ ThreadFrame

\* ------------------------------------------------------ FraudDetectionModel
\* A description as the scorer reads it: its length and the keywords and
\* medical terms its lower-cased text contains.
suspicious_keywords == <<"urgent", "emergency", "immediate", "cash", "asap">>
indicator_keywords == <<"urgent", "emergency", "immediate", "cash">>
medical_terms ==
    <<"procedure", "treatment", "medication", "surgery", "diagnosis", "prescription">>

Range(seq) == {seq[i] : i \in 1..Len(seq)}

Max(a, b) == IF a > b THEN a ELSE b

Abs(x) == IF x < 0 THEN -x ELSE x

\* mutant: the score is not clamped
Unclamped(x) == x

\* max(0.0, min(1.0, x))
Clamp(x) == Max(0, Min(ScoreOne, x))

\* round(x, 4) of a score, in units of 1e-4
RoundScore(x) == Round4(Frac(x, 100))

\* mutant: the two description tiers are exchanged
basic_tiers_exchanged(claim_data, noise) ==
    LET amount == claim_data.amount
        description == claim_data.description
        amount_risk == IF amount > 100000 THEN 400000
                       ELSE IF amount > 50000 THEN 300000
                       ELSE IF amount > 25000 THEN 150000
                       ELSE 0
        description_risk == IF description.length < 30 THEN 150000
                            ELSE IF description.length < 100 THEN 300000
                            ELSE 0
        keyword_count == Cardinality(Range(suspicious_keywords) \cap description.words)
        medical_count == Cardinality(Range(medical_terms) \cap description.words)
        fraud_score == amount_risk + description_risk
                       + keyword_count * 100000 - medical_count * 50000
    IN  Clamp(fraud_score + noise)

\* mutant: a medical term weighs as much as a suspicious keyword
basic_medical_doubled(claim_data, noise) ==
    LET amount == claim_data.amount
        description == claim_data.description
        amount_risk == IF amount > 100000 THEN 400000
                       ELSE IF amount > 50000 THEN 300000
                       ELSE IF amount > 25000 THEN 150000
                       ELSE 0
        description_risk == IF description.length < 30 THEN 300000
                            ELSE IF description.length < 100 THEN 150000
                            ELSE 0
        keyword_count == Cardinality(Range(suspicious_keywords) \cap description.words)
        medical_count == Cardinality(Range(medical_terms) \cap description.words)
        fraud_score == amount_risk + description_risk
                       + keyword_count * 100000 - medical_count * 100000
    IN  Clamp(fraud_score + noise)

\* _basic_fraud_detection
basic_fraud_detection(claim_data, noise) ==
    LET amount == claim_data.amount
        description == claim_data.description
        amount_risk == IF amount > 100000 THEN 400000
                       ELSE IF amount > 50000 THEN 300000
                       ELSE IF amount > 25000 THEN 150000
                       ELSE 0
        description_risk == IF description.length < 30 THEN 300000
                            ELSE IF description.length < 100 THEN 150000
                            ELSE 0
        keyword_count == Cardinality(Range(suspicious_keywords) \cap description.words)
        medical_count == Cardinality(Range(medical_terms) \cap description.words)
        fraud_score == amount_risk + description_risk
                       + keyword_count * 100000 - medical_count * 50000
    IN  Clamp(fraud_score + noise)

\* _check_traditional_indicators: the list of flags, the keyword flag
\* carrying the keywords it names
check_traditional_indicators(claim_data) ==
    (IF claim_data.amount > 75000 THEN <<"High claim amount requiring verification">>
     ELSE <<>>)
    \o (IF claim_data.description.length < 50 THEN <<"Insufficient claim description">>
        ELSE <<>>)
    \o (LET found_keywords ==
                SelectSeq(indicator_keywords, LAMBDA kw : kw \in claim_data.description.words)
        IN  IF found_keywords # <<>>
            THEN <<[suspicious_keywords_detected |-> found_keywords]>>
            ELSE <<>>)

\* mutant: the boundaries belong to the lower class
risk_level_inclusive(fraud_score) ==
    IF fraud_score <= 350000 THEN "LOW"
    ELSE IF fraud_score <= 650000 THEN "MEDIUM"
    ELSE "HIGH"

\* _get_risk_level
get_risk_level(fraud_score) ==
    IF fraud_score < 350000 THEN "LOW"
    ELSE IF fraud_score < 650000 THEN "MEDIUM"
    ELSE "HIGH"

\* _generate_basic_analysis: the three checks of the fallback report
generate_basic_analysis(claim_data, proof_files) ==
    [amount |-> IF claim_data.amount > 100000 THEN "very_high"
                ELSE IF claim_data.amount > 50000 THEN "high" ELSE "normal",
     documentation |-> IF Len(proof_files) = 0 THEN "none"
                       ELSE IF Len(proof_files) >= 3 THEN "good" ELSE "limited",
     description |-> IF claim_data.description.length < 50 THEN "brief"
                     ELSE IF claim_data.description.length > 150 THEN "detailed"
                     ELSE "adequate"]

\* A narrative text as the scorer reads it: its labelled percentages
\* ("<label>: NN%") in text order, and which of the words the rules look for
\* its lower-cased text contains.
score_patterns ==
    <<"FRAUD RISK ASSESSMENT", "FRAUD RISK SCORE", "RISK SCORE", "FRAUD PROBABILITY">>

\* re.search finds the pattern at a labelled percentage: at its own label,
\* and "RISK SCORE:" also inside "FRAUD RISK SCORE:"
PatternAt(pattern, label) ==
    \/ label = pattern
    \/ pattern = "RISK SCORE" /\ label = "FRAUD RISK SCORE"

\* re.search(pattern, gemini_response, re.IGNORECASE): the leftmost match,
\* 0 for none
search(pattern, text) ==
    LET hits == {i \in 1..Len(text.scores) : PatternAt(pattern, text.scores[i].label)}
    IN  IF hits = {} THEN 0 ELSE CHOOSE i \in hits : \A j \in hits : i <= j

\* the loop over score_patterns: the first pattern that matches gives
\* int(group(1)) / 100.0, and 0.5 stays when none does
extract_score(text) ==
    LET matching == {q \in 1..Len(score_patterns) : search(score_patterns[q], text) # 0}
    IN  IF matching = {} THEN 500000
        ELSE LET q == CHOOSE q \in matching : \A r \in matching : q <= r
             IN  text.scores[search(score_patterns[q], text)].value * 10000

\* mutant: the approve rule is applied before the reject and review rules
calculate_approve_first(text, claim_data, proof_files) ==
    LET base == extract_score(text)
        s3 == IF "approve" \in text.words /\ "legitimate" \in text.words
              THEN Min(base, 300000) ELSE base
        s1 == IF "reject" \in text.words \/ "fraudulent" \in text.words
              THEN Max(s3, 700000) ELSE s3
        s2 == IF "requires_review" \in text.words \/ "suspicious" \in text.words
              THEN Max(s1, 500000) ELSE s1
        s4 == IF Len(proof_files) = 0 THEN Max(s2, 650000)
              ELSE IF Len(proof_files) >= 3 THEN (s2 * 75) \div 100
              ELSE s2
        s5 == IF claim_data.description.length > 150 THEN (s4 * 90) \div 100
              ELSE IF claim_data.description.length < 50 THEN Max(s4, 550000)
              ELSE s4
    IN  Clamp(s5)

\* mutant: the documentation rule is applied before the recommendation rules
calculate_files_first(text, claim_data, proof_files) ==
    LET base == extract_score(text)
        s4 == IF Len(proof_files) = 0 THEN Max(base, 650000)
              ELSE IF Len(proof_files) >= 3 THEN (base * 75) \div 100
              ELSE base
        s1 == IF "reject" \in text.words \/ "fraudulent" \in text.words
              THEN Max(s4, 700000) ELSE s4
        s2 == IF "requires_review" \in text.words \/ "suspicious" \in text.words
              THEN Max(s1, 500000) ELSE s1
        s3 == IF "approve" \in text.words /\ "legitimate" \in text.words
              THEN Min(s2, 300000) ELSE s2
        s5 == IF claim_data.description.length > 150 THEN (s3 * 90) \div 100
              ELSE IF claim_data.description.length < 50 THEN Max(s3, 550000)
              ELSE s3
    IN  Clamp(s5)

\* _calculate_fraud_score_from_gemini
calculate_fraud_score_from_gemini(text, claim_data, proof_files) ==
    LET base == extract_score(text)
        s1 == IF "reject" \in text.words \/ "fraudulent" \in text.words
              THEN Max(base, 700000) ELSE base
        s2 == IF "requires_review" \in text.words \/ "suspicious" \in text.words
              THEN Max(s1, 500000) ELSE s1
        s3 == IF "approve" \in text.words /\ "legitimate" \in text.words
              THEN Min(s2, 300000) ELSE s2
        s4 == IF Len(proof_files) = 0 THEN Max(s3, 650000)
              ELSE IF Len(proof_files) >= 3 THEN (s3 * 75) \div 100
              ELSE s3
        s5 == IF claim_data.description.length > 150 THEN (s4 * 90) \div 100
              ELSE IF claim_data.description.length < 50 THEN Max(s4, 550000)
              ELSE s4
    IN  Clamp(s5)

\* A proof-file descriptor: which of the keys the scorer reads it carries,
\* and its mimetype ("missing" when it has none).
Descriptor(filename, mimetype, size, data) ==
    [filename |-> filename, mimetype |-> mimetype, size |-> size, data |-> data]

\* mutant: every file is examined
EveryFile(proof_files) == proof_files

\* proof_files[:3]
FirstThree(proof_files) == SubSeq(proof_files, 1, Min(3, Len(proof_files)))

\* _build_gemini_prompt_with_files raises KeyError at the first of the first
\* three descriptors without filename, mimetype or size
prompt_raises(proof_files) ==
    \E i \in 1..Len(FirstThree(proof_files)) :
        LET file == proof_files[i]
        IN  ~file.filename \/ file.mimetype = "missing" \/ ~file.size

\* the loop over proof_files[:3] that builds parts: a descriptor is added
\* when it is an image; a KeyError on one of its keys skips it alone
attachments(proof_files) ==
    SelectSeq(FirstThree(proof_files),
              LAMBDA file_info :
                  /\ file_info.filename
                  /\ file_info.mimetype \in {"image/png", "image/jpeg"}
                  /\ file_info.data)

\* what generate_content is called with
request(proof_files) ==
    IF attachments(proof_files) # <<>>
    THEN [contents |-> "parts", attached |-> attachments(proof_files)]
    ELSE [contents |-> "prompt", attached |-> <<>>]

\* the dictionary predict_fraud_with_gemini returns
Assessment(fraud_score, claim_data, proof_files, gemini_analysis, gemini_success) ==
    [is_fraud |-> fraud_score > 500000,
     fraud_probability |-> RoundScore(fraud_score),
     confidence |-> RoundScore(Abs(fraud_score - 500000) * 2),
     risk_level |-> get_risk_level(fraud_score),
     indicators |-> check_traditional_indicators(claim_data),
     gemini_analysis |-> gemini_analysis,
     has_proof_files |-> Len(proof_files),
     gemini_success |-> gemini_success]

\* the narrative service answered and its answer was scored
Scored(claim_data, proof_files, text) ==
    LET fraud_score == calculate_fraud_score_from_gemini(text, claim_data, proof_files)
    IN  [returned |-> TRUE, path |-> "narrative", fraud_score |-> fraud_score, noise |-> 0,
         request |-> request(proof_files),
         ret |-> Assessment(fraud_score, claim_data, proof_files,
                            [kind |-> "narrative", text |-> text], TRUE)]

\* the except branch: the fallback score and the synthesized report, over
\* the values `noises` of random.uniform(-0.05, 0.05); gemini_success is what
\* the try block left it
Fallback(claim_data, proof_files, gemini_success, noises) ==
    { LET fraud_score == basic_fraud_detection(claim_data, noise)
      IN  [returned |-> TRUE, path |-> "fallback", fraud_score |-> fraud_score,
           noise |-> noise, request |-> request(proof_files),
           ret |-> Assessment(fraud_score, claim_data, proof_files,
                              [kind |-> "fallback",
                               report |-> generate_basic_analysis(claim_data, proof_files)],
                              gemini_success)]
      : noise \in noises }

\* the call did not return: an exception left predict_fraud_with_gemini
Raised == [returned |-> FALSE, path |-> "none"]

\* predict_fraud_with_gemini after its counter: the set of its outcomes.
\* The service either raises, answers with an object without text
\* attribute, answers with text None, or answers with a text.
predict_fraud_with_gemini(claim_data, proof_files, service, noises) ==
    IF ~claim_data.amountOk THEN {Raised}                        \* float(...), line 27
    ELSE IF prompt_raises(proof_files) THEN {Raised}             \* line 34
    ELSE CASE service.kind = "raises" ->
                Fallback(claim_data, proof_files, FALSE, noises)
           [] service.kind = "no_text" ->                        \* line 106 raises
                Fallback(claim_data, proof_files, FALSE, noises)
           [] service.kind = "text_none" ->                      \* line 109 raises
                Fallback(claim_data, proof_files, TRUE, noises)
           [] service.kind = "text" ->
                {Scored(claim_data, proof_files, service.text)}

\* The request the scorer serves: the claim form, the uploaded files and the
\* way the narrative service will behave.
Request(claim_data, proof_files, service) ==
    [op |-> "request", claims |-> <<>>, saved |-> <<>>,
     claim_data |-> claim_data, proof_files |-> proof_files, service |-> service,
     out |-> Raised, ret |-> [none |-> TRUE]]

\* a call of predict_fraud_with_gemini on the request
PredictFraud(noises) ==
    /\ call.op \in {"request", "predict_fraud"}
    /\ predictions_count < MaxPredictions
    /\ \E o \in predict_fraud_with_gemini(call.claim_data, call.proof_files,
                                          call.service, noises) :
        /\ predictions_count' = predictions_count + 1
        /\ call' = [call EXCEPT !.op = "predict_fraud", !.out = o,
                                !.ret = IF o.returned THEN o.ret ELSE [none |-> TRUE]]
        /\ UNCHANGED <<nodes, processed_claims, training_rounds, global_model_accuracy,
                       last_trained_claim_count, training_history, disk, quiet,
                       repeat_call, threads>>

\* the scorer and the coordinator as app.py constructs them, before a request
InitRequest(claims, files, services) ==
    \E claim_data \in claims, proof_files \in files, service \in services :
        /\ nodes = [n \in NodeIds |-> NewNode]
        /\ processed_claims = {}
        /\ training_rounds = 0
        /\ global_model_accuracy = Frac(DefaultGlobalAccuracy, 1)
        /\ last_trained_claim_count = 0
        /\ training_history = <<>>
        /\ disk = NoFile
        /\ call = Request(claim_data, proof_files, service)
        /\ quiet = FALSE
        /\ repeat_call = FALSE
        /\ predictions_count = 0
        /\ threads = [t \in Threads |-> Idle]

\* the length of a keyword or medical term
WordLength(w) ==
    CASE w = "urgent" -> 6 [] w = "emergency" -> 9 [] w = "immediate" -> 9
      [] w = "cash" -> 4 [] w = "asap" -> 4 [] w = "procedure" -> 9
      [] w = "treatment" -> 9 [] w = "medication" -> 10 [] w = "surgery" -> 7
      [] w = "diagnosis" -> 9 [] w = "prescription" -> 12

RECURSIVE TotalLength(_)
TotalLength(ws) ==
    IF ws = {} THEN 0
    ELSE LET w == CHOOSE w \in ws : TRUE IN WordLength(w) + TotalLength(ws \ {w})

\* descriptions long enough for the words they contain
Descriptions(lengths, wordsets) ==
    {d \in [length : lengths, words : wordsets] : TotalLength(d.words) <= d.length}

\* claim forms whose amount float() accepts
ClaimForms(amounts, descriptions) ==
    [amountOk : {TRUE}, amount : amounts, description : descriptions]

\* claim forms whose amount is not a number: float() raises ValueError
MalformedForms(descriptions) ==
    [amountOk : {FALSE}, amount : {0}, description : descriptions]

\* narrative texts with at most maxscores labelled percentages
Texts(labels, percents, wordsets, maxscores) ==
    [scores : UNION {[1..n -> [label : labels, value : percents]] : n \in 0..maxscores},
     words : wordsets]

\* lists of at most maxlen descriptors
FilesOver(descriptors, maxlen) == UNION {[1..n -> descriptors] : n \in 0..maxlen}

\* the answers of the narrative service: the three ways to fail, and the texts
Answers(texts) ==
    {[kind |-> k] : k \in {"raises", "no_text", "text_none"}}
    \cup {[kind |-> "text", text |-> t] : t \in texts}

ImageFile == Descriptor(TRUE, "image/png", TRUE, TRUE)

\* ----------------------------------------------------------- specifications
\* The whole coordinator fed one claim at a time (approved or still
\* pending), every read and write of the snapshot succeeding.
OneClaim == BatchesOver(1..MaxClaimId, {"APPROVED", "PENDING"}, {TRUE}, 1)

Next ==
    \/ LoadNewClaims(OneClaim, {"ok"})
    \/ TrainRound(OneClaim, {"ok"}, {0})      \* the noise at the middle
    \/ GetStatus
    \/ Reset({"ok"})
    \/ Restart({"ok"})

Spec == Init /\ [][Next]_vars

\* Ingestion alone: the coordinator fed whole batches of the claims app.py
\* builds (their features always extractable), duplicates of an id within
\* a batch included, every read and write of the snapshot succeeding.
Batches == BatchesOver(1..MaxBatchClaimId, Statuses, {TRUE}, MaxBatch)

NextBatch ==
    \/ LoadNewClaims(Batches, {"ok"})
    \/ Reset({"ok"})
    \/ Restart({"ok"})

SpecBatch == Init /\ [][NextBatch]_vars

\* Ingestion alone, fed batches of finalized claims only: the batches in
\* which an id can repeat and every claim is a candidate for acceptance.
FinalizedBatches == BatchesOver(1..MaxBatchClaimId, Finalized, {TRUE}, MaxBatch)

NextRepeat ==
    \/ LoadNewClaims(FinalizedBatches, {"ok"})
    \/ Reset({"ok"})
    \/ Restart({"ok"})

SpecRepeat == Init /\ [][NextRepeat]_vars

\* The coordinator over a snapshot file whose reads and writes may fail, fed
\* one finalized claim at a time, its features extractable or not.
IoClaims == BatchesOver(1..MaxIoClaimId, Finalized, BOOLEAN, 1)

NextIO ==
    \/ LoadNewClaims(IoClaims, SaveOutcomes)
    \/ TrainRound(IoClaims, SaveOutcomes, {0})
    \/ GetStatus
    \/ Reset(SaveOutcomes)
    \/ Restart(LoadOutcomes)

SpecIO == Init /\ [][NextIO]_vars

\* The coordinator fed one approved claim at a time, over a snapshot file
\* whose writes may break off and whose reads at startup may fail.
ColdClaims == BatchesOver(1..MaxIoClaimId, {"APPROVED"}, {TRUE}, 1)

NextCold ==
    \/ LoadNewClaims(ColdClaims, {"ok", "write_failed"})
    \/ TrainRound(ColdClaims, {"ok", "write_failed"}, {0})
    \/ Restart(LoadOutcomes)

SpecCold == Init /\ [][NextCold]_vars

\* The coordinator after k rounds, each a train_round call over a batch of
\* one approved claim (claim k in round k) that random.choice gave to the
\* first node, with the noise at the middle and every write succeeding.
RECURSIVE AfterRounds(_)
AfterRounds(k) ==
    IF k = 0
    THEN [nodes |-> [n \in NodeIds |-> NewNode], processed_claims |-> {},
          training_rounds |-> 0, global_model_accuracy |-> Frac(DefaultGlobalAccuracy, 1),
          last_trained_claim_count |-> 0, training_history |-> <<>>]
    ELSE LET st == AfterRounds(k - 1)
             held == [st.nodes EXCEPT ![1] = add_training_sample(@, k, LabelOf("APPROVED")).node]
             trained == TrainNodes(held, [n \in Trainable(held) |-> 0])
             ps == Participating(trained, 1)
             gma == aggregate(ps, st.global_model_accuracy)
         IN  [nodes |-> trained, processed_claims |-> st.processed_claims \cup {k},
              training_rounds |-> st.training_rounds + 1, global_model_accuracy |-> gma,
              last_trained_claim_count |-> total_samples(held),
              training_history |->
                  Append(st.training_history,
                         RoundResult(TRUE, "success", st.training_rounds + 1, 1,
                                     total_samples(held), gma, ps))]

InitStatus ==
    \E k \in 0..MaxHistory :
        LET st == AfterRounds(k)
        IN  /\ nodes = st.nodes
            /\ processed_claims = st.processed_claims
            /\ training_rounds = st.training_rounds
            /\ global_model_accuracy = st.global_model_accuracy
            /\ last_trained_claim_count = st.last_trained_claim_count
            /\ training_history = st.training_history
            /\ disk = IF k = 0 THEN NoFile
                      ELSE save_state(NoFile,
                                      InMemory(st.processed_claims, st.training_rounds,
                                               st.global_model_accuracy,
                                               st.last_trained_claim_count), "ok")
            /\ call = IF k = 0
                      THEN [op |-> "init", claims |-> <<>>, saved |-> <<>>,
                            ret |-> [none |-> TRUE]]
                      ELSE [op |-> "train_round",
                            claims |-> <<[id |-> k, status |-> "APPROVED", featuresOk |-> TRUE]>>,
                            saved |-> <<"ok", "ok">>, ret |-> st.training_history[k]]
            /\ quiet = (k > 0)
            /\ repeat_call = FALSE
            /\ predictions_count = 0
            /\ threads = [t \in Threads |-> Idle]

\* one more approved claim, new to the coordinator
StatusClaims == BatchesOver({MaxHistory + 1}, {"APPROVED"}, {TRUE}, 1)

NextStatus ==
    \/ GetStatus
    \/ LoadNewClaims(StatusClaims, {"ok"})

SpecStatus == InitStatus /\ [][NextStatus]_vars

\* The scorer on one request: amounts and description lengths on both sides
\* of every tier, well-formed image files, a service that fails in each way
\* or answers with one labelled percentage, the noise at its ends.
ScoreForms ==
    ClaimForms({10000, 60000, 75000, 75001, 120000},
               Descriptions({20, 49, 50, 300},
                            {{}, {"asap"}, {"urgent", "cash"},
                             Range(suspicious_keywords), Range(medical_terms)}))

ScoreTexts ==
    Texts({"FRAUD RISK ASSESSMENT"}, {0, 21, 150},
          {{}, {"reject"}, {"approve", "legitimate"}}, 1)

\* random.uniform(-0.05, 0.05), sampled at its ends and around 0
ScoreNoise == {-50000, -1, 0, 49999, 50000}

InitScore == InitRequest(ScoreForms, FilesOver({ImageFile}, MaxFiles), Answers(ScoreTexts))

NextScore == PredictFraud(ScoreNoise)

SpecScore == InitScore /\ [][NextScore]_vars

\* The scorer on a request with any list of proof files: images, PDFs,
\* other types, and descriptors that lack data, size or mimetype.
ProofFiles ==
    {ImageFile,
     Descriptor(TRUE, "application/pdf", TRUE, TRUE),
     Descriptor(TRUE, "text/plain", TRUE, TRUE),
     Descriptor(TRUE, "image/png", TRUE, FALSE),
     Descriptor(TRUE, "image/png", FALSE, TRUE),
     Descriptor(TRUE, "missing", TRUE, TRUE)}

FileForms ==
    ClaimForms({10000}, Descriptions({100}, {{}}))
    \cup MalformedForms(Descriptions({100}, {{}}))

FileTexts == Texts({"FRAUD RISK ASSESSMENT"}, {20}, {{}}, 1)

InitFiles == InitRequest(FileForms, FilesOver(ProofFiles, MaxFiles), Answers(FileTexts))

NextFiles == PredictFraud({0})

SpecFiles == InitFiles /\ [][NextFiles]_vars

\* The fallback scorer alone: the narrative service fails in each way, the
\* amounts and description lengths lie on both sides of every tier, the
\* descriptions hold from none to all of the keywords and medical terms.
FallbackForms ==
    ClaimForms({25000, 25001, 50000, 50001, 100000, 100001},
               Descriptions({29, 30, 99, 100},
                            {{}, {"cash"}, {"urgent", "asap"}, {"cash", "surgery"},
                             Range(suspicious_keywords), Range(medical_terms)}))

InitFallback ==
    InitRequest(FallbackForms, FilesOver({ImageFile}, MaxFiles),
                {[kind |-> k] : k \in {"raises", "no_text", "text_none"}})

NextFallback == PredictFraud(ScoreNoise)

SpecFallback == InitFallback /\ [][NextFallback]_vars

\* The scorer on the files prepare_claim builds (all four keys present):
\* images of two kinds, PDFs and plain text, in every order.
UploadedFiles ==
    {Descriptor(TRUE, m, TRUE, TRUE) :
        m \in {"image/png", "image/jpeg", "application/pdf", "text/plain"}}

InitAttach ==
    InitRequest(ClaimForms({10000}, Descriptions({100}, {{}})),
                FilesOver(UploadedFiles, MaxFiles),
                {[kind |-> "raises"]} \cup {[kind |-> "text", text |-> t] : t \in FileTexts})

NextAttach == PredictFraud({0})

SpecAttach == InitAttach /\ [][NextAttach]_vars

\* A coordinator whose first node was given every one of the first claims
\* by random.choice, as many as put its sample count on either side of the
\* improvement cap; then one more claim, rounds, resets and restarts.
HeldSamples == {1, 19, 20, 21}

\* the id of the claim that arrives next
FreshClaimId == 22

NodeHolding(k) ==
    [local_data |-> [i \in 1..k |-> [claim_id |-> i, label |-> LabelOf("APPROVED")]],
     local_model_accuracy |-> 0, training_samples |-> k, processed_claims |-> 1..k]

InitNode ==
    \E k \in HeldSamples :
        /\ nodes = [n \in NodeIds |-> IF n = 1 THEN NodeHolding(k) ELSE NewNode]
        /\ processed_claims = 1..k
        /\ training_rounds = 0
        /\ global_model_accuracy = Frac(DefaultGlobalAccuracy, 1)
        /\ last_trained_claim_count = 0
        /\ training_history = <<>>
        /\ disk = save_state(NoFile, InMemory(1..k, 0, Frac(DefaultGlobalAccuracy, 1), 0),
                             "ok")
        /\ call = [op |-> "init", claims |-> <<>>, saved |-> <<>>, ret |-> [none |-> TRUE]]
        /\ quiet = FALSE
        /\ repeat_call = FALSE
        /\ predictions_count = 0
        /\ threads = [t \in Threads |-> Idle]

NodeClaims == BatchesOver({FreshClaimId}, {"APPROVED"}, {TRUE}, 1)

NextNode ==
    \/ LoadNewClaims(NodeClaims, {"ok"})
    \/ TrainRound({<<>>}, {"ok"}, Noise)
    \/ Reset({"ok"})
    \/ Restart({"ok"})

SpecNode == InitNode /\ [][NextNode]_vars

\* The coordinator fed approved claims one at a time, and the first claim
\* also twice in one batch, through ingestion alone and through train_round,
\* with resets, and with restarts over a snapshot whose last write may have
\* broken off.
HoldClaims ==
    BatchesOver(1..MaxClaimId, {"APPROVED"}, {TRUE}, 1)
    \cup {[i \in 1..2 |-> [id |-> 1, status |-> "APPROVED", featuresOk |-> TRUE]]}

NextHold ==
    \/ LoadNewClaims(HoldClaims, {"ok", "write_failed"})
    \/ TrainRound(HoldClaims, {"ok"}, {0})
    \/ Reset({"ok"})
    \/ Restart(LoadOutcomes)

SpecHold == Init /\ [][NextHold]_vars

\* The coordinator asked for its status and for rounds without a batch,
\* while approved claims arrive one at a time through ingestion calls of
\* their own and the process restarts over an intact snapshot.
AgreeClaims == BatchesOver(1..MaxRoundClaimId, {"APPROVED"}, {TRUE}, 1)

NextAgree ==
    \/ LoadNewClaims(AgreeClaims, {"ok"})
    \/ TrainRound({<<>>}, {"ok"}, {0})
    \/ GetStatus
    \/ Restart({"ok"})

SpecAgree == Init /\ [][NextAgree]_vars

\* The scorer on a request the narrative service answers with a text, the
\* description lengths on both sides of 50 and of 150, the percentage from 0
\* to beyond 100, with and without proof files.
BareForms == ClaimForms({10000}, Descriptions({49, 50, 150, 151}, {{}}))

BareTexts ==
    Texts({"FRAUD RISK ASSESSMENT"}, {0, 64, 65, 150},
          {{}, {"reject"}, {"suspicious"}, {"approve", "legitimate"},
           {"reject", "approve", "legitimate"}}, 1)

InitBare ==
    InitRequest(BareForms, FilesOver({ImageFile}, MaxFiles),
                {[kind |-> "text", text |-> t] : t \in BareTexts})

NextBare == PredictFraud({0})

SpecBare == InitBare /\ [][NextBare]_vars

\* Two fl_train requests at a time, each with a batch of at most one
\* approved claim; every write succeeds.
ThreadClaims == BatchesOver(1..MaxBatchClaimId, {"APPROVED"}, {TRUE}, 1)

NextThreads ==
    \/ \E t \in Threads : ThreadEnters(t, ThreadClaims)
    \/ \E t \in Threads : ThreadExamines(t, {"ok"})
    \/ \E t \in Threads : ThreadPlaces(t)
    \/ \E t \in Threads : ThreadRecords(t)
    \/ \E t \in Threads : ThreadGates(t)
    \/ \E t \in Threads : ThreadCounts(t)
    \/ \E t \in Threads : ThreadTrains(t, {0})
    \/ \E t \in Threads : ThreadFinishes(t, {"ok"})

SpecThreads == Init /\ [][NextThreads]_vars

\* The scorer on a request the narrative service answers with a text: up to
\* MaxScores labelled percentages under any of the four labels, in any
\* order, and the rule words in every combination that tells the rules apart.
NarrativeTexts ==
    Texts(Range(score_patterns), {20, 90},
          SUBSET {"reject", "suspicious", "approve", "legitimate"}
            \cup {{"fraudulent"}, {"requires_review"}},
          MaxScores)

NarrativeForms ==
    ClaimForms({10000},
               Descriptions({20, 100, 300}, {{}})
                 \cup Descriptions({300}, {{"treatment", "surgery"}}))

InitNarrative ==
    InitRequest(NarrativeForms, FilesOver({ImageFile}, MaxFiles),
                {[kind |-> "text", text |-> t] : t \in NarrativeTexts})

NextNarrative == PredictFraud({0})

SpecNarrative == InitNarrative /\ [][NextNarrative]_vars

\* The first training round of a coordinator fed approved claims one at a
\* time, with every sampled noise value.
RoundClaims == BatchesOver(1..MaxRoundClaimId, {"APPROVED"}, {TRUE}, 1)

NextRounds ==
    \/ LoadNewClaims(RoundClaims, {"ok"})
    \/ training_rounds = 0 /\ TrainRound({<<>>}, {"ok"}, Noise)

SpecRounds == Init /\ [][NextRounds]_vars

\* ------------------------------------------------------------------ claims
\* the claim ids in a node's sample list
HeldIds(node) == {node.local_data[i].claim_id : i \in 1..Len(node.local_data)}

\* the nodes whose sample list holds the id
Holders(ns, id) == {n \in NodeIds : id \in HeldIds(ns[n])}

KnownIds(ns, pc) == pc \cup UNION {HeldIds(ns[n]) : n \in NodeIds}

\* the step is a call of an operation that ingests a batch
IngestStep == call'.op \in {"load_new_claims", "train_round"}

\* the number of claims the call of the step accepted
AcceptedBy(c) ==
    IF c.op = "load_new_claims" THEN c.ret.new_claims_count
    ELSE c.ret.new_claims_loaded

\* the ids of the finalized claims of a batch
FinalizedIds(batch) ==
    {batch[i].id : i \in {j \in 1..Len(batch) : batch[j].status \in Finalized}}

\* C1: in every reachable state, restarts included, a claim id is in the
\* global processed set if and only if exactly one node's sample list holds it.
C1_ProcessedIffHeldByOneNode ==
    \A id \in KnownIds(nodes, processed_claims) :
        (id \in processed_claims) <=> (Cardinality(Holders(nodes, id)) = 1)

\* C2: ingestion is idempotent per claim id.  In every ingestion, an id
\* already in the processed set is not accepted again: it stays processed and
\* every node keeps the samples it had, in order; the call accepts each new
\* finalized id of the batch once, however often the batch repeats it, so
\* the total sample count grows by the number of distinct new finalized ids
\* (by exactly 1 for a batch of two finalized claims sharing one new id).
C2_IngestionIdempotent ==
    [][IngestStep =>
        LET batch == call'.claims
            fresh == FinalizedIds(batch) \ processed_claims
        IN  /\ AcceptedBy(call') = Cardinality(fresh)
            /\ total_samples(nodes') = total_samples(nodes) + Cardinality(fresh)
            /\ processed_claims' = processed_claims \cup fresh
            /\ \A n \in NodeIds :
                 /\ Len(nodes'[n].local_data) >= Len(nodes[n].local_data)
                 /\ SubSeq(nodes'[n].local_data, 1, Len(nodes[n].local_data))
                      = nodes[n].local_data
                 /\ \A i \in (Len(nodes[n].local_data) + 1)..Len(nodes'[n].local_data) :
                      nodes'[n].local_data[i].claim_id \in fresh
            /\ \A id \in processed_claims : Holders(nodes', id) = Holders(nodes, id)
            /\ \A id \in fresh : Cardinality(Holders(nodes', id)) = 1
    ]_vars

\* a batch of two finalized claims with one new id was ingested and counted once
C2_Witness ==
    /\ call.op = "load_new_claims"
    /\ Len(call.claims) = 2
    /\ call.claims[1].id = call.claims[2].id
    /\ call.claims[1].status \in Finalized
    /\ call.claims[2].status \in Finalized
    /\ call.ret.new_claims_count = 1
    /\ total_samples(nodes) = 1

\* C3: a train_round call that follows another train_round call, with no
\* claim newly accepted between the two nor during the second, fails and
\* reports no participating node.
C3_RoundGating ==
    (call.op = "train_round" /\ repeat_call)
        => (~call.ret.success /\ call.ret.nodes_participated = 0)

\* a second call after a successful round over data that has not grown
C3_Witness ==
    /\ call.op = "train_round"
    /\ repeat_call
    /\ training_rounds >= 1
    /\ Len(training_history) >= 1
    /\ total_samples(nodes) > 0
    /\ call.ret.message = "no_new_claims"

\* the sum over the nodes 1..i of accuracy * samples, and of samples
RECURSIVE AccuracyMass(_, _)
AccuracyMass(ns, i) ==
    IF i = 0 THEN 0
    ELSE ns[i].local_model_accuracy * ns[i].training_samples + AccuracyMass(ns, i - 1)

\* C4: after a successful train_round the global accuracy is the mean of the
\* local accuracies this round produced, weighted by sample count, over the
\* nodes that hold samples; it lies between the smallest and the largest of
\* those local accuracies.
C4_WeightedMean ==
    (call.op = "train_round" /\ call.ret.success) =>
        LET P == {n \in NodeIds : nodes[n].training_samples > 0}
            g == global_model_accuracy
        IN  /\ P # {}
            /\ g.den > 0
            /\ g.num * SumSamples(nodes, NumNodes) = g.den * AccuracyMass(nodes, NumNodes)
            /\ \E lo \in P, hi \in P :
                 /\ \A n \in P :
                      /\ nodes[lo].local_model_accuracy <= nodes[n].local_model_accuracy
                      /\ nodes[n].local_model_accuracy <= nodes[hi].local_model_accuracy
                 /\ nodes[lo].local_model_accuracy * g.den <= g.num
                 /\ g.num <= nodes[hi].local_model_accuracy * g.den

\* a round over two nodes with different sample counts and different local
\* accuracies, whose weighted mean is not their plain mean
C4_Witness ==
    /\ call.op = "train_round"
    /\ call.ret.success
    /\ \E n \in NodeIds, m \in NodeIds :
         /\ nodes[n].training_samples = 2
         /\ nodes[m].training_samples = 1
         /\ nodes[n].local_model_accuracy # nodes[m].local_model_accuracy
         /\ global_model_accuracy.num * 2 #
              global_model_accuracy.den
                * (nodes[n].local_model_accuracy + nodes[m].local_model_accuracy)

\* the node ids a Round record lists as participants
ParticipantIds(rec) ==
    {rec.node_accuracies[i].node_id : i \in 1..Len(rec.node_accuracies)}

\* C5: a train_round call that returns success raises the round counter by
\* one, sets last_trained_claim_count to the sum of the node sample counts,
\* appends one Round record carrying the new counter and that sum, and lists
\* as participants exactly the nodes that hold samples, at least one.
C5_SuccessfulRound ==
    [][(call'.op = "train_round" /\ call'.ret.success) =>
        LET total == total_samples(nodes')
            rec == training_history'[Len(training_history')]
        IN  /\ training_rounds' = training_rounds + 1
            /\ last_trained_claim_count' = total
            /\ Len(training_history') = Len(training_history) + 1
            /\ SubSeq(training_history', 1, Len(training_history)) = training_history
            /\ rec = call'.ret
            /\ rec.round = training_rounds'
            /\ rec.total_samples = total
            /\ ParticipantIds(rec) = {n \in NodeIds : nodes'[n].training_samples > 0}
            /\ Len(rec.node_accuracies) = Cardinality(ParticipantIds(rec))
            /\ rec.nodes_participated = Len(rec.node_accuracies)
            /\ rec.nodes_participated >= 1
            /\ \A i \in 1..Len(rec.node_accuracies) :
                 rec.node_accuracies[i].samples
                   = nodes'[rec.node_accuracies[i].node_id].training_samples
    ]_vars

\* a second successful round, over two nodes
C5_Witness ==
    /\ call.op = "train_round"
    /\ call.ret.success
    /\ training_rounds = 2
    /\ Len(training_history) = 2
    /\ call.ret.nodes_participated = 2
    /\ last_trained_claim_count = 2

\* C6: a train_round call that returns failure does so because the nodes
\* hold no sample ("no training data") or as many as at the last round ("no
\* new claims"); it reports no participant and leaves the round counter,
\* last_trained_claim_count, the global accuracy, the history and every
\* node's local accuracy as they were; without a batch it changes nothing.
C6_FailedRound ==
    [][(call'.op = "train_round" /\ ~call'.ret.success) =>
        LET total == total_samples(nodes')
        IN  /\ call'.ret.nodes_participated = 0
            /\ total = 0 \/ total = last_trained_claim_count
            /\ (call'.ret.message = "no_training_data") <=> (total = 0)
            /\ (call'.ret.message = "no_new_claims") <=> (total # 0)
            /\ call'.ret.round = training_rounds
            /\ UNCHANGED <<training_rounds, last_trained_claim_count,
                           global_model_accuracy, training_history>>
            /\ \A n \in NodeIds :
                 nodes'[n].local_model_accuracy = nodes[n].local_model_accuracy
            /\ call'.claims = <<>> => UNCHANGED <<nodes, processed_claims, disk>>
            /\ call'.ret.new_claims_loaded = 0 => UNCHANGED <<nodes, processed_claims, disk>>
    ]_vars

\* a call that failed although its batch was accepted: the ingestion stays
C6_Witness ==
    /\ call.op = "train_round"
    /\ ~call.ret.success
    /\ call.ret.new_claims_loaded = 1
    /\ call.ret.message = "no_new_claims"
    /\ total_samples(nodes) = 1
    /\ training_rounds >= 1

\* C7: ingestion accepts only finalized claims.  Every sample a call appends
\* comes from the first finalized claim of the batch with that id, with
\* label 1 if that claim is REJECTED and 0 if it is APPROVED; an id the batch
\* offers only as not finalized enters neither a node nor the processed set.
C7_OnlyFinalizedLabelled ==
    [][IngestStep =>
        LET batch == call'.claims
            first(id) == CHOOSE i \in 1..Len(batch) :
                            /\ batch[i].id = id
                            /\ batch[i].status \in Finalized
                            /\ \A j \in 1..(i - 1) :
                                 ~(batch[j].id = id /\ batch[j].status \in Finalized)
        IN  /\ processed_claims' \ processed_claims \subseteq FinalizedIds(batch)
            /\ \A n \in NodeIds :
                 \A i \in (Len(nodes[n].local_data) + 1)..Len(nodes'[n].local_data) :
                    LET s == nodes'[n].local_data[i]
                    IN  /\ s.claim_id \in FinalizedIds(batch)
                        /\ s.label \in {0, 1}
                        /\ (s.label = 1) <=> (batch[first(s.claim_id)].status = "REJECTED")
                        /\ (s.label = 0) <=> (batch[first(s.claim_id)].status = "APPROVED")
            /\ \A i \in 1..Len(batch) :
                 (batch[i].id \notin FinalizedIds(batch) /\ batch[i].id \notin processed_claims)
                    => /\ batch[i].id \notin processed_claims'
                       /\ Holders(nodes', batch[i].id) = {}
    ]_vars

\* a batch with a pending claim and a rejected one: only the rejected one is
\* stored, with label 1
C7_Witness ==
    /\ call.op = "load_new_claims"
    /\ Len(call.claims) = 2
    /\ call.claims[1].status = "PENDING"
    /\ call.claims[2].status = "REJECTED"
    /\ call.ret.new_claims_count = 1
    /\ total_samples(nodes) = 1
    /\ \E n \in NodeIds :
         nodes[n].local_data = <<[claim_id |-> call.claims[2].id, label |-> 1]>>

\* the ids of the finalized claims of a batch whose features can be extracted
IngestibleIds(batch) ==
    {batch[i].id : i \in {j \in 1..Len(batch) :
                            batch[j].status \in Finalized /\ batch[j].featuresOk}}

\* C8: reset leaves an empty processed set, round counter 0, global accuracy
\* 0.75, last_trained_claim_count 0, an empty history and every node without
\* samples, with an empty dedup set and accuracy 0, and the snapshot holds
\* that state; the ingestion that follows accepts every finalized claim
\* again, and a train_round without batch that follows fails for lack of data.
C8_Reset ==
    [][/\ call'.op = "reset" =>
            /\ processed_claims' = {}
            /\ training_rounds' = 0
            /\ global_model_accuracy'.num = 7500 * global_model_accuracy'.den
            /\ last_trained_claim_count' = 0
            /\ training_history' = <<>>
            /\ \A n \in NodeIds :
                 /\ nodes'[n].local_data = <<>>
                 /\ nodes'[n].training_samples = 0
                 /\ nodes'[n].processed_claims = {}
                 /\ nodes'[n].local_model_accuracy = 0
            /\ disk'.kind = "state"
            /\ disk'.state.processed_claims = {}
            /\ disk'.state.training_rounds = 0
            /\ disk'.state.global_model_accuracy = global_model_accuracy'
            /\ disk'.state.last_trained_claim_count = 0
       /\ (call.op = "reset" /\ IngestStep) =>
            /\ AcceptedBy(call') = Cardinality(IngestibleIds(call'.claims))
            /\ processed_claims' = IngestibleIds(call'.claims)
            /\ \A id \in IngestibleIds(call'.claims) :
                 Cardinality(Holders(nodes', id)) = 1
       /\ (call.op = "reset" /\ call'.op = "train_round" /\ call'.claims = <<>>) =>
            /\ ~call'.ret.success
            /\ call'.ret.message = "no_training_data"
            /\ call'.ret.nodes_participated = 0
    ]_vars

\* a reset after a training round, persisted
C8_Witness ==
    /\ call.op = "reset"
    /\ quiet
    /\ processed_claims = {}
    /\ disk.kind = "state"
    /\ disk.state.training_rounds = 0

\* C9: when every write succeeds, the snapshot file holds the in-memory
\* processed set, round counter, global accuracy and last_trained_claim_count
\* after every operation (and is absent only while all four have their
\* defaults), so that a restart reloads the four values as they are.
C9_SnapshotMatchesMemory ==
    /\ disk.kind \in {"absent", "state"}
    /\ disk.kind = "state" =>
         /\ disk.state.processed_claims = processed_claims
         /\ disk.state.training_rounds = training_rounds
         /\ disk.state.global_model_accuracy = global_model_accuracy
         /\ disk.state.last_trained_claim_count = last_trained_claim_count
    /\ disk.kind = "absent" =>
         /\ processed_claims = {}
         /\ training_rounds = 0
         /\ global_model_accuracy = Frac(7500, 1)
         /\ last_trained_claim_count = 0
    /\ call.saved # <<>> => disk.kind = "state"
    /\ load_state(disk, "ok").last_trained_claim_count = last_trained_claim_count
    /\ load_state(disk, "ok").processed_claims = processed_claims

\* the snapshot after a second round over two claims
C9_Witness ==
    /\ call.op = "train_round"
    /\ call.ret.success
    /\ disk.kind = "state"
    /\ disk.state.training_rounds = 2
    /\ disk.state.last_trained_claim_count = 2
    /\ Cardinality(disk.state.processed_claims) = 2

\* the last write of the call of the step failed
LastWriteFailed(c) == c.saved # <<>> /\ c.saved[Len(c.saved)] # "ok"

\* the in-memory effect of the call of the step is the one of a call whose
\* writes succeed
MutationStands ==
    /\ call'.op = "load_new_claims" =>
         /\ call'.ret.new_claims_count > 0
         /\ processed_claims' = processed_claims \cup FinalizedIds(call'.claims)
         /\ total_samples(nodes') = total_samples(nodes) + call'.ret.new_claims_count
    /\ call'.op = "train_round" =>
         /\ call'.ret.success
         /\ training_rounds' = training_rounds + 1
         /\ training_history' = Append(training_history, call'.ret)
         /\ last_trained_claim_count' = total_samples(nodes')
    /\ call'.op = "reset" =>
         /\ processed_claims' = {}
         /\ training_rounds' = 0
         /\ total_samples(nodes') = 0

\* what a reader of the snapshot file gets
SnapshotContent(d) == load_state(d, "ok")

\* C10: when the snapshot write of an operation fails, the operation ends
\* with its normal result, the in-memory mutation stands, and the snapshot
\* file keeps the content it had.
C10_WriteFailureKeepsSnapshot ==
    [][LastWriteFailed(call') =>
         /\ MutationStands
         /\ Len(call'.saved) = 1 => SnapshotContent(disk') = SnapshotContent(disk)
    ]_vars

\* C11: a start of the process that finds no snapshot file, or a file it
\* cannot read, ends with round counter 0, global accuracy 0.75, an empty
\* processed set, last_trained_claim_count 0, an empty history and five
\* empty nodes.
C11_ColdStart ==
    [][(call'.op = "restart" /\ (disk.kind # "state" \/ call'.ret.read # "ok")) =>
         /\ training_rounds' = 0
         /\ global_model_accuracy'.num = 7500 * global_model_accuracy'.den
         /\ processed_claims' = {}
         /\ last_trained_claim_count' = 0
         /\ training_history' = <<>>
         /\ DOMAIN nodes' = 1..5
         /\ \A n \in NodeIds :
              /\ nodes'[n].local_data = <<>>
              /\ nodes'[n].training_samples = 0
              /\ nodes'[n].processed_claims = {}
              /\ nodes'[n].local_model_accuracy = 0
    ]_vars

\* a start that could not read a snapshot holding a trained round
C11_Witness ==
    /\ call.op = "restart"
    /\ call.ret.read = "read_failed"
    /\ disk.kind = "state"
    /\ disk.state.training_rounds >= 1
    /\ disk.state.processed_claims # {}
    /\ training_rounds = 0
    /\ processed_claims = {}

\* C12: get_status changes nothing of the coordinator, its nodes or the
\* snapshot, and reports the round counter, the sum of the node sample counts
\* less last_trained_claim_count as the samples available, can_train exactly
\* when that is positive, and the last min(10, length) history entries in
\* their order.
C12_GetStatus ==
    [][call'.op = "get_status" =>
        LET r == call'.ret
            h == training_history
            shown == r.training_history
            sum == nodes[1].training_samples + nodes[2].training_samples
                   + nodes[3].training_samples + nodes[4].training_samples
                   + nodes[5].training_samples
        IN  /\ UNCHANGED <<nodes, processed_claims, training_rounds,
                           global_model_accuracy, last_trained_claim_count,
                           training_history, disk>>
            /\ r.rounds_completed = training_rounds
            /\ r.new_samples_available = sum - last_trained_claim_count
            /\ r.can_train <=> (r.new_samples_available > 0)
            /\ Len(shown) = (IF Len(h) < 10 THEN Len(h) ELSE 10)
            /\ \A i \in 1..Len(shown) : shown[i] = h[Len(h) - Len(shown) + i]
    ]_vars

\* a status over a history longer than ten rounds, with a sample waiting
C12_Witness ==
    /\ call.op = "get_status"
    /\ Len(training_history) > 10
    /\ Len(call.ret.training_history) = 10
    /\ call.ret.training_history[1].round = Len(training_history) - 9
    /\ call.ret.training_history[10].round = training_rounds
    /\ call.ret.new_samples_available = 1
    /\ call.ret.can_train

\* the scorer returned an assessment
Assessed == call.op = "predict_fraud" /\ call.out.returned

C14_RiskBoundaries ==
    Assessed =>
        LET score == call.out.fraud_score
            level == call.ret.risk_level
        IN  /\ level \in {"LOW", "MEDIUM", "HIGH"}
            /\ (level = "LOW") <=> (score < 350000)
            /\ (level = "MEDIUM") <=> (350000 <= score /\ score < 650000)
            /\ (level = "HIGH") <=> (score >= 650000)
            /\ score = 349999 => level = "LOW"
            /\ score = 350000 => level = "MEDIUM"
            /\ score = 649999 => level = "MEDIUM"
            /\ score = 650000 => level = "HIGH"
            /\ call.ret.is_fraud <=> (score > 500000)

\* a score of 0.349999, reported as probability 0.35 and still LOW
C14_Witness ==
    /\ Assessed
    /\ call.out.fraud_score = 349999
    /\ call.ret.fraud_probability = 3500
    /\ call.ret.risk_level = "LOW"
    /\ ~call.ret.is_fraud

\* C15: when the narrative service fails (it raises, or its response is
\* malformed, such as one without text), the assessment carries the fallback
\* score and the synthesized report with gemini_success false; and
\* gemini_success is true only when the score was computed from the
\* narrative text the service returned.
C15_FailureMeansFallback ==
    Assessed =>
        /\ call.service.kind # "text" =>
              /\ call.out.path = "fallback"
              /\ call.ret.gemini_analysis.kind = "fallback"
              /\ ~call.ret.gemini_success
        /\ call.ret.gemini_success =>
              /\ call.service.kind = "text"
              /\ call.out.path = "narrative"
              /\ call.ret.gemini_analysis = [kind |-> "narrative", text |-> call.service.text]

\* C16: scoring never fails.  For every claim form and list of proof-file
\* descriptors, malformed ones included, and however the narrative service
\* behaves, predict_fraud_with_gemini returns an assessment; a problematic
\* file is skipped alone: the request carries the images among the first
\* three files, and the assessment counts every file.
C16_ScoringNeverFails ==
    call.op = "predict_fraud" =>
        /\ call.out.returned
        /\ call.ret.has_proof_files = Len(call.proof_files)
        /\ \A i \in 1..Len(call.proof_files) :
              (i <= 3 /\ call.proof_files[i] = ImageFile)
                 => \E j \in 1..Len(call.out.request.attached) :
                       call.out.request.attached[j] = ImageFile

Matched(description) ==
    description.words \cap {"urgent", "emergency", "immediate", "cash", "asap"}

\* the keywords the keyword flags of an indicator list name
Named(indicators) ==
    UNION {Range(indicators[i].suspicious_keywords_detected) :
             i \in {j \in 1..Len(indicators) :
                       indicators[j] \notin {"High claim amount requiring verification",
                                             "Insufficient claim description"}}}

\* C18: on both scoring paths the indicators hold the high-amount flag
\* exactly when the amount is above 75000, the insufficient-description flag
\* exactly when the description is shorter than 50, and a keyword flag
\* exactly when the description contains one of urgent, emergency,
\* immediate, cash, asap, naming every keyword it contains.
C18_TraditionalIndicators ==
    Assessed =>
        LET ind == call.ret.indicators
        IN  /\ ("High claim amount requiring verification" \in Range(ind))
                  <=> (call.claim_data.amount > 75000)
            /\ ("Insufficient claim description" \in Range(ind))
                  <=> (call.claim_data.description.length < 50)
            /\ (\E i \in 1..Len(ind) : ind[i] \notin
                     {"High claim amount requiring verification",
                      "Insufficient claim description"})
                  <=> (Matched(call.claim_data.description) # {})
            /\ Named(ind) = Matched(call.claim_data.description)

\* the value of the leftmost labelled percentage of the text whose label
\* contains the pattern, -1 when there is none
Leftmost(text, labels) ==
    IF \E i \in 1..Len(text.scores) : text.scores[i].label \in labels
    THEN text.scores[CHOOSE i \in 1..Len(text.scores) :
                        /\ text.scores[i].label \in labels
                        /\ \A j \in 1..(i - 1) : text.scores[j].label \notin labels].value
    ELSE -1

\* C20: on the narrative path the score is the result of, in this order:
\* (1) the base: value/100 of the first of the patterns ASSESSMENT, FRAUD
\* RISK SCORE, RISK SCORE, FRAUD PROBABILITY that matches anywhere in the
\* text, else 0.5; (2) max with 0.70 on reject or fraudulent; (3) max with
\* 0.50 on requires_review or suspicious; (4) min with 0.30 on approve and
\* legitimate; (5) max with 0.65 without proof files, times 0.75 with three
\* or more; (6) times 0.90 for a description longer than 150, max with 0.55
\* for one shorter than 50; (7) the clamp to [0,1].  Scenario B (20%,
\* approve and legitimate, 3 files, 300 characters) gives 0.135 and LOW.
C20_RuleOrder ==
    (Assessed /\ call.out.path = "narrative") =>
        LET text == call.service.text
            w == text.words
            files == Len(call.proof_files)
            length == call.claim_data.description.length
            a == Leftmost(text, {"FRAUD RISK ASSESSMENT"})
            b == Leftmost(text, {"FRAUD RISK SCORE"})
            c == Leftmost(text, {"RISK SCORE", "FRAUD RISK SCORE"})
            d == Leftmost(text, {"FRAUD PROBABILITY"})
            percent == IF a >= 0 THEN a ELSE IF b >= 0 THEN b
                       ELSE IF c >= 0 THEN c ELSE IF d >= 0 THEN d ELSE 50
            x1 == percent * 10000
            x2 == IF w \cap {"reject", "fraudulent"} # {} /\ x1 < 700000 THEN 700000 ELSE x1
            x3 == IF w \cap {"requires_review", "suspicious"} # {} /\ x2 < 500000
                  THEN 500000 ELSE x2
            x4 == IF {"approve", "legitimate"} \subseteq w /\ x3 > 300000 THEN 300000 ELSE x3
            x5 == IF files = 0 THEN (IF x4 < 650000 THEN 650000 ELSE x4)
                  ELSE IF files >= 3 THEN (3 * x4) \div 4 ELSE x4
            x6 == IF length > 150 THEN (9 * x5) \div 10
                  ELSE IF length < 50 /\ x5 < 550000 THEN 550000 ELSE x5
            x7 == IF x6 < 0 THEN 0 ELSE IF x6 > 1000000 THEN 1000000 ELSE x6
        IN  /\ call.out.fraud_score = x7
            /\ (/\ text.scores = <<[label |-> "FRAUD RISK ASSESSMENT", value |-> 20]>>
                /\ w = {"approve", "legitimate"}
                /\ files = 3
                /\ length = 300)
                  => /\ call.out.fraud_score = 135000
                     /\ call.ret.fraud_probability = 1350
                     /\ call.ret.risk_level = "LOW"

\* Scenario B: 10000, 300 characters with two medical terms, three files,
\* a narrative of 20% that recommends approval of a legitimate claim
C20_Witness ==
    /\ Assessed
    /\ call.out.path = "narrative"
    /\ call.claim_data.amount = 10000
    /\ call.claim_data.description = [length |-> 300, words |-> {"treatment", "surgery"}]
    /\ Len(call.proof_files) = 3
    /\ call.service.text = [scores |-> <<[label |-> "FRAUD RISK ASSESSMENT", value |-> 20]>>,
                             words |-> {"approve", "legitimate"}]
    /\ call.out.fraud_score = 135000
    /\ call.ret.risk_level = "LOW"

\* the round numbers of the history are all different
DistinctRounds(h) ==
    \A i \in 1..Len(h) : \A j \in 1..Len(h) : i # j => h[i].round # h[j].round

\* C19: requests that reach the coordinator on concurrent threads take
\* effect as if each ran alone: no claim id is in two nodes or counted
\* twice, no increment of the round counter is lost and no two rounds of the
\* history carry the same round number.
C19_AsIfSerialized ==
    /\ \A id \in KnownIds(nodes, processed_claims) : Cardinality(Holders(nodes, id)) <= 1
    /\ total_samples(nodes) <= Cardinality(processed_claims)
           + Cardinality({t \in Threads : threads[t].pc = "record"})
    /\ DistinctRounds(training_history)
    /\ (\A t \in Threads : threads[t].pc = "idle")
          => training_rounds = Len(training_history)

\* C21: the fallback score is amount_tier + description_tier + 0.10 for
\* each distinct suspicious keyword present - 0.05 for each distinct medical
\* term present + noise, clamped to [0,1], with the noise in [-0.05, 0.05];
\* amount_tier is 0.40 above 100000, 0.30 above 50000, 0.15 above 25000,
\* else 0; description_tier is 0.30 below 30 characters, 0.15 below 100,
\* else 0; the number of proof files has no part in it.
C21_FallbackFormula ==
    (Assessed /\ call.out.path = "fallback") =>
        LET a == call.claim_data.amount
            d == call.claim_data.description
            amount_tier == CASE a > 100000 -> 40
                             [] a > 50000 /\ a <= 100000 -> 30
                             [] a > 25000 /\ a <= 50000 -> 15
                             [] a <= 25000 -> 0
            description_tier == CASE d.length < 30 -> 30
                                  [] d.length >= 30 /\ d.length < 100 -> 15
                                  [] d.length >= 100 -> 0
            keywords == {w \in d.words : w \in {"urgent", "emergency", "immediate",
                                                "cash", "asap"}}
            terms == {w \in d.words : w \in {"procedure", "treatment", "medication",
                                             "surgery", "diagnosis", "prescription"}}
            sum == 10000 * (amount_tier + description_tier + 10 * Cardinality(keywords)
                            - 5 * Cardinality(terms)) + call.out.noise
        IN  /\ call.out.noise >= -50000 /\ call.out.noise <= 50000
            /\ call.out.fraud_score = IF sum < 0 THEN 0
                                      ELSE IF sum > 1000000 THEN 1000000 ELSE sum

\* three files, 100001 in 99 characters with all five keywords: 1.10 is
\* clamped to 1
C21_Witness ==
    /\ Assessed
    /\ call.out.path = "fallback"
    /\ Len(call.proof_files) = 3
    /\ call.claim_data.amount = 100001
    /\ call.claim_data.description.length = 99
    /\ Cardinality(call.claim_data.description.words) = 5
    /\ call.out.noise = 50000
    /\ call.out.fraud_score = 1000000

\* C22: only the first three proof files are examined; exactly those of
\* them with an image mimetype are attached to the narrative request, in
\* their order (0 to 3 attachments); PDFs and other types are skipped and
\* the call still returns; without an eligible file among the examined
\* ones, or without files, the service is called with the text-only prompt.
C22_AttachmentSelection ==
    call.op = "predict_fraud" =>
        LET files == call.proof_files
            eligible == {i \in 1..Len(files) :
                            i <= 3 /\ files[i].mimetype \in {"image/png", "image/jpeg"}}
            attached == call.out.request.attached
        IN  /\ call.out.returned
            /\ Len(attached) = Cardinality(eligible)
            /\ Len(attached) <= 3
            /\ \A i \in eligible :
                  attached[Cardinality({e \in eligible : e <= i})] = files[i]
            /\ (eligible = {}) <=> (call.out.request.contents = "prompt")
            /\ (eligible # {}) <=> (call.out.request.contents = "parts")

\* a PDF, an image, a text file and a fourth file that is an image: only
\* the second file is attached
C22_Witness ==
    /\ call.op = "predict_fraud"
    /\ Len(call.proof_files) = 4
    /\ call.proof_files[1].mimetype = "application/pdf"
    /\ call.proof_files[2].mimetype = "image/png"
    /\ call.proof_files[3].mimetype = "text/plain"
    /\ call.proof_files[4].mimetype = "image/jpeg"
    /\ call.out.returned
    /\ call.out.request = [contents |-> "parts", attached |-> <<call.proof_files[2]>>]

\* C23: train_local_model leaves the accuracy of a node without samples at
\* 0, in every reachable state, after a reset as well; a node with n > 0
\* samples gets min(0.98, 0.75 + min(0.20, 0.01 * n) + noise) with the noise
\* in [-0.03, 0.03], whatever its accuracy was before, so that after a
\* round the accuracy of every node that trained is in [0.73, 0.98] and the
\* global accuracy is at most 0.98.
C23_TrainLocal ==
    /\ \A n \in NodeIds :
          nodes[n].training_samples = 0 =>
              /\ nodes[n].local_model_accuracy = 0
              /\ \A e \in Noise : train_local_model(nodes[n], e).local_model_accuracy = 0
    /\ (call.op = "train_round" /\ call.ret.success) =>
          /\ \A n \in NodeIds :
                nodes[n].training_samples > 0 =>
                    LET k == nodes[n].training_samples
                        acc == nodes[n].local_model_accuracy
                        improvement == IF 100 * k < 2000 THEN 100 * k ELSE 2000
                    IN  /\ acc >= 7300 /\ acc <= 9800
                        /\ \E e \in -300..300 :
                              acc = (IF 7500 + improvement + e < 9800
                                     THEN 7500 + improvement + e ELSE 9800)
          /\ global_model_accuracy.num <= 9800 * global_model_accuracy.den

\* the first node trained on 20 samples to 0.98 and then on 21 samples to
\* 0.92, while another node has no sample and accuracy 0
C23_Witness ==
    /\ call.op = "train_round" /\ call.ret.success
    /\ Len(training_history) = 2
    /\ training_history[1].node_accuracies = <<[node_id |-> 1, accuracy |-> 9800, samples |-> 20]>>
    /\ nodes[1].training_samples = 21
    /\ nodes[1].local_model_accuracy = 9200
    /\ nodes[2].training_samples = 0
    /\ nodes[2].local_model_accuracy = 0

\* C24: in every state reached by ingestion, train_round, reset and
\* restart, no claim id is held by more than one node, no node holds an id
\* twice (its sample count is the length of its sample list and the size of
\* its own set of ids), and every id a node holds is in the global
\* processed set.
C24_NodesHoldDisjointProcessedIds ==
    /\ \A id \in KnownIds(nodes, processed_claims) : Cardinality(Holders(nodes, id)) <= 1
    /\ \A n \in NodeIds :
          LET node == nodes[n]
          IN  /\ \A i \in 1..Len(node.local_data) : \A j \in 1..Len(node.local_data) :
                    i # j => node.local_data[i].claim_id # node.local_data[j].claim_id
              /\ node.training_samples = Len(node.local_data)
              /\ node.training_samples = Cardinality(node.processed_claims)
              /\ HeldIds(node) = node.processed_claims
              /\ HeldIds(node) \subseteq processed_claims

\* claim 2 is held by the second node, and claim 1, which arrived twice in
\* the batch of a train_round, is held once, by the first node
C24_Witness ==
    /\ call.op = "train_round" /\ call.ret.success
    /\ Len(call.claims) = 2
    /\ processed_claims = {1, 2}
    /\ HeldIds(nodes[1]) = {1}
    /\ HeldIds(nodes[2]) = {2}
    /\ total_samples(nodes) = 2

\* C25: every train_round call whose ingestion newly accepts at least one
\* claim returns success, in every reachable state, those after a restart
\* that reloaded the snapshot included.
C25_AcceptedClaimsAreTrained ==
    (call.op = "train_round" /\ call.ret.new_claims_loaded > 0) => call.ret.success

\* C26: in every reachable state, after a restart or a reset as well,
\* last_trained_claim_count is at most the sum of the nodes' sample counts,
\* so the samples available that get_status reports are never negative.
C26_TrainedCountWithinSamples ==
    /\ last_trained_claim_count <= total_samples(nodes)
    /\ call.op = "get_status" => call.ret.new_samples_available >= 0

\* C27: in every reachable state, after a restart or a reset as well, the
\* round counter is the number of records in the history, and the round
\* numbers of the history are 1, 2, ..., counter in order.
C27_CounterMatchesHistory ==
    /\ training_rounds = Len(training_history)
    /\ \A i \in 1..Len(training_history) : training_history[i].round = i

\* C28: get_status and train_round agree: in every reachable state, those
\* with claims ingested by a call of their own and those after a restart
\* included, get_status reports can_train exactly when a train_round
\* without batch that follows it at once returns success.
C28_StatusAgreesWithRound ==
    [][(/\ call.op = "get_status"
        /\ call'.op = "train_round"
        /\ call'.claims = <<>>)
          => (call.ret.can_train <=> call'.ret.success)]_vars

\* C29: on the narrative path a claim without proof files never gets the
\* risk level LOW: for every narrative text and every description the
\* final score is at least 0.585, and at least 0.65, hence HIGH, when the
\* description has at most 150 characters.
C29_NoFilesNeverLow ==
    (Assessed /\ call.out.path = "narrative" /\ Len(call.proof_files) = 0) =>
        /\ call.ret.risk_level # "LOW"
        /\ call.out.fraud_score >= 585000
        /\ call.claim_data.description.length <= 150 =>
              /\ call.out.fraud_score >= 650000
              /\ call.ret.risk_level = "HIGH"

\* no files, 151 characters, a narrative of 0% that recommends approval of
\* a legitimate claim: 0.585, MEDIUM
C29_Witness ==
    /\ Assessed
    /\ call.out.path = "narrative"
    /\ call.proof_files = <<>>
    /\ call.claim_data.description.length = 151
    /\ call.service.text = [scores |-> <<[label |-> "FRAUD RISK ASSESSMENT", value |-> 0]>>,
                             words |-> {"approve", "legitimate"}]
    /\ call.out.fraud_score = 585000
    /\ call.ret.risk_level = "MEDIUM"

\* C30: on the narrative path a narrative text that contains reject or
\* fraudulent never leads to the risk level LOW, for every extracted
\* percentage, every other keyword of the text, every number of proof files
\* and every description length.
C30_RejectNeverLow ==
    (/\ Assessed
     /\ call.out.path = "narrative"
     /\ call.service.text.words \cap {"reject", "fraudulent"} # {})
        => call.ret.risk_level # "LOW"

====
